---- MODULE Spec2Model ----
(***************************************************************************)
(* Model of the state-scan validation scripts                              *)
(* (archive/v1/validation/compare-v7.py and compare.py).                   *)
(*                                                                         *)
(* A Python str is a sequence of one-character strings, so that            *)
(* str.replace, the f-string concatenation of create_key and the `in`      *)
(* substring test are computed character by character.  A Python dict is   *)
(* a sequence of <<key, value>> entries with pairwise different keys, in   *)
(* insertion order.  A finding is a function from the field names it has   *)
(* to their values; a field the JSON object lacks is not in its DOMAIN.    *)
(***************************************************************************)
EXTENDS Integers, Sequences, FiniteSets, TLC

VARIABLES
    statescan,          \* main: the list load_statescan_output returned
    ground_truth,       \* main: the list load_ground_truth returned
    statescan_keys,     \* compare: dict key -> finding of the scanner side
    ground_truth_keys,  \* compare: dict key -> finding of the ground truth
    tp, fp, fn,         \* main: the three lists compare returned
    precision, recall, f1,  \* main: the metrics, as exact fractions <<num, den>>
    fp_cats, fn_cats,   \* main: categorize_by_type(fp), categorize_by_type(fn)
    raised,             \* main: an uncaught exception ended the run
    pc,                 \* main: position in the run
    findings,           \* categorize_by_type called on its own: its argument
    categories          \* categorize_by_type called on its own: its result

vars == <<statescan, ground_truth, statescan_keys, ground_truth_keys, tp, fp, fn,
          precision, recall, f1, fp_cats, fn_cats, raised, pc, findings, categories>>

mainVars == <<statescan, ground_truth, statescan_keys, ground_truth_keys, tp, fp, fn,
              precision, recall, f1, fp_cats, fn_cats, raised, pc>>

catVars == <<findings, categories>>

\* ------------------------------------------------------------------ bounds

\* Longest className / fieldName drawn character by character (SpecKey).
MaxNameLen == 1

\* Longest scanner / ground-truth list of the full run (Spec, SpecMalformed).
MaxFindings == 3

\* Most words a drawn fieldType is made of (SpecCat, single finding).
MaxTypeWords == 2

\* Longest list given to categorize_by_type on its own (SpecCat).
MaxCatLen == 3

\* ------------------------------------------------------------ Python values

\* The empty str ''.
EmptyStr == << >>

\* All sequences over S of length at most n.
SeqsUpTo(S, n) == UNION {[1..k -> S] : k \in 0..n}

\* Mutant of DictGet: an absent field reads as the report's placeholder 'N/A'.
DictGetPlaceholder(d, key, default) ==
    IF key \in DOMAIN d THEN d[key] ELSE <<"N", "/", "A">>

\* dict.get(key, default)
DictGet(d, key, default) == IF key \in DOMAIN d THEN d[key] ELSE default

\* `key in d` for an insertion-ordered dict
DictHas(d, key) == \E i \in 1..Len(d) : d[i][1] = key

\* d[key] for a key the dict holds
DictLookup(d, key) == d[CHOOSE i \in 1..Len(d) : d[i][1] = key][2]

\* Mutant of DictSet: a list of pairs, every assignment appended.
DictSetAppendAlways(d, key, value) == Append(d, <<key, value>>)

\* Mutant of DictSet: dict.setdefault, the first value of a key is kept.
DictSetKeepFirst(d, key, value) ==
    IF \E i \in 1..Len(d) : d[i][1] = key THEN d ELSE Append(d, <<key, value>>)

\* Mutant of DictSet: a reassigned key moves to the end.
DictSetMoveToEnd(d, key, value) ==
    LET Other(e) == e[1] # key IN Append(SelectSeq(d, Other), <<key, value>>)

\* d[key] = value: an existing key keeps its position and takes the new value,
\* a new key is appended.
DictSet(d, key, value) ==
    IF DictHas(d, key)
    THEN [i \in 1..Len(d) |-> IF d[i][1] = key THEN <<key, value>> ELSE d[i]]
    ELSE Append(d, <<key, value>>)

\* list[:n]
Take(s, n) == SubSeq(s, 1, IF Len(s) < n THEN Len(s) ELSE n)

\* `needle in hay` for two strs
Contains(hay, needle) ==
    \E i \in 0..(Len(hay) - Len(needle)) : SubSeq(hay, i + 1, i + Len(needle)) = needle

\* ---------------------------------------------------------------- KeyBuilder

\* Mutant of normalize_class_name: name.replace('.', '$').
NormalizeToDollar(name) ==
    [i \in 1..Len(name) |-> IF name[i] = "." THEN "$" ELSE name[i]]

\* name.replace('$', '.')
normalize_class_name(name) ==
    [i \in 1..Len(name) |-> IF name[i] = "$" THEN "." ELSE name[i]]

\* f"{class_name}::{field_name}"
create_key(finding) ==
    LET class_name == normalize_class_name(DictGet(finding, "className", EmptyStr))
        field_name == DictGet(finding, "fieldName", EmptyStr)
    IN  class_name \o <<":", ":">> \o field_name

\* One entry of load_statescan_output's result: every field filled in, '' for a
\* field the JSON object lacks ('riskLevel' and 'raw' are carried like 'pattern'
\* and never read again; they are left out).
LoadFinding(f) ==
    [className |-> DictGet(f, "className", EmptyStr),
     fieldName |-> DictGet(f, "fieldName", EmptyStr),
     fieldType |-> DictGet(f, "fieldType", EmptyStr),
     pattern   |-> DictGet(f, "pattern", EmptyStr)]

load_statescan_output(raw) == [i \in 1..Len(raw) |-> LoadFinding(raw[i])]

\* ---------------------------------------------------------------- Reconciler

\* {create_key(f): f for f in fs}
RECURSIVE KeyDict(_)
KeyDict(fs) ==
    IF Len(fs) = 0 THEN << >>
    ELSE DictSet(KeyDict(SubSeq(fs, 1, Len(fs) - 1)),
                 create_key(fs[Len(fs)]), fs[Len(fs)])

\* the first loop of compare: the (finding, ground_truth_keys[key]) pairs
TruePositives(sk, gk) ==
    LET Hit(e) == DictHas(gk, e[1])
        hits == SelectSeq(sk, Hit)
    IN  [i \in 1..Len(hits) |-> <<hits[i][2], DictLookup(gk, hits[i][1])>>]

\* the first loop of compare: the else branch
FalsePositives(sk, gk) ==
    LET Miss(e) == ~DictHas(gk, e[1])
        misses == SelectSeq(sk, Miss)
    IN  [i \in 1..Len(misses) |-> misses[i][2]]

\* Mutant of FalseNegatives: the second loop without its test.
FalseNegativesUntested(sk, gk) == [i \in 1..Len(gk) |-> gk[i][2]]

\* the second loop of compare
FalseNegatives(sk, gk) ==
    LET Miss(e) == ~DictHas(sk, e[1])
        misses == SelectSeq(gk, Miss)
    IN  [i \in 1..Len(misses) |-> misses[i][2]]

\* --------------------------------------------------------- MetricsCalculator

\* Python's float results are modelled as exact fractions <<num, den>> in lowest
\* terms; the int 0 of the `else 0` branches is <<0, 1>>.
RECURSIVE GCD(_, _)
GCD(a, b) == IF b = 0 THEN a ELSE GCD(b, a % b)

Frac(n, d) == LET g == GCD(n, d) IN <<n \div g, d \div g>>

FracZero == <<0, 1>>

FracAdd(x, y) == Frac(x[1] * y[2] + y[1] * x[2], x[2] * y[2])

FracMul(x, y) == Frac(x[1] * y[1], x[2] * y[2])

\* x / y for y > 0
FracDiv(x, y) == Frac(x[1] * y[2], x[2] * y[1])

FracPositive(x) == x[1] > 0

\* len(tp) / (len(tp) + len(fp)) if (len(tp) + len(fp)) > 0 else 0
Precision(ntp, nfp) == IF ntp + nfp > 0 THEN Frac(ntp, ntp + nfp) ELSE FracZero

\* len(tp) / (len(tp) + len(fn)) if (len(tp) + len(fn)) > 0 else 0
Recall(ntp, nfn) == IF ntp + nfn > 0 THEN Frac(ntp, ntp + nfn) ELSE FracZero

\* Mutant of F1: the factor 2 forgotten.
F1WithoutFactor(p, r) ==
    IF FracPositive(FracAdd(p, r))
    THEN FracDiv(FracMul(p, r), FracAdd(p, r))
    ELSE FracZero

\* 2 * precision * recall / (precision + recall) if (precision + recall) > 0 else 0
F1(p, r) ==
    IF FracPositive(FracAdd(p, r))
    THEN FracDiv(FracMul(FracMul(<<2, 1>>, p), r), FracAdd(p, r))
    ELSE FracZero

\* ---------------------------------------------------------------- Categorizer

\* The words field types are written with, character by character.
W_Fast == <<"F", "a", "s", "t">>

W_Thread == <<"T", "h", "r", "e", "a", "d">>

W_Local == <<"L", "o", "c", "a", "l">>

W_Counter == <<"C", "o", "u", "n", "t", "e", "r">>

W_Gauge == <<"G", "a", "u", "g", "e">>

W_Histogram == <<"H", "i", "s", "t", "o", "g", "r", "a", "m">>

W_Summary == <<"S", "u", "m", "m", "a", "r", "y">>

W_Loading == <<"L", "o", "a", "d", "i", "n", "g">>

W_Cache == <<"C", "a", "c", "h", "e">>

W_Concurrent == <<"C", "o", "n", "c", "u", "r", "r", "e", "n", "t">>

W_Hash == <<"H", "a", "s", "h">>

W_Map == <<"M", "a", "p">>

W_Array == <<"A", "r", "r", "a", "y">>

W_List == <<"L", "i", "s", "t">>

W_Set == <<"S", "e", "t">>

W_Atomic == <<"A", "t", "o", "m", "i", "c">>

W_Recorder == <<"R", "e", "c", "o", "r", "d", "e", "r">>

W_Long == <<"L", "o", "n", "g">>

W_String == <<"S", "t", "r", "i", "n", "g">>

W_Lt == <<"<">>

W_Gt == <<">">>

W_Comma == <<",">>

\* The substrings categorize_by_type looks for.
S_ThreadLocal == W_Thread \o W_Local

S_FastThreadLocal == W_Fast \o W_Thread \o W_Local

S_LoadingCache == W_Loading \o W_Cache

S_HashMap == W_Hash \o W_Map

S_ConcurrentHashMap == W_Concurrent \o W_Hash \o W_Map

S_ArrayList == W_Array \o W_List

\* Mutant of CategoryOf: the Map branch moved before the Metrics branch.
CategoryOfMapFirst(field_type) ==
    IF Contains(field_type, S_ThreadLocal) \/ Contains(field_type, S_FastThreadLocal)
    THEN "ThreadLocal"
    ELSE IF Contains(field_type, W_Map) \/ Contains(field_type, S_HashMap)
            \/ Contains(field_type, S_ConcurrentHashMap)
    THEN "Map"
    ELSE IF Contains(field_type, W_Counter) \/ Contains(field_type, W_Gauge)
            \/ Contains(field_type, W_Histogram) \/ Contains(field_type, W_Summary)
    THEN "Metrics"
    ELSE IF Contains(field_type, W_Cache) \/ Contains(field_type, S_LoadingCache)
    THEN "Cache"
    ELSE IF Contains(field_type, W_List) \/ Contains(field_type, S_ArrayList)
    THEN "List"
    ELSE IF Contains(field_type, W_Set)
    THEN "Set"
    ELSE IF Contains(field_type, W_Atomic)
    THEN "Atomic"
    ELSE IF Contains(field_type, W_Recorder)
    THEN "Recorder"
    ELSE "Other"

\* The label of the if/elif chain of categorize_by_type for one fieldType.
CategoryOf(field_type) ==
    IF Contains(field_type, S_ThreadLocal) \/ Contains(field_type, S_FastThreadLocal)
    THEN "ThreadLocal"
    ELSE IF Contains(field_type, W_Counter) \/ Contains(field_type, W_Gauge)
            \/ Contains(field_type, W_Histogram) \/ Contains(field_type, W_Summary)
    THEN "Metrics"
    ELSE IF Contains(field_type, W_Cache) \/ Contains(field_type, S_LoadingCache)
    THEN "Cache"
    ELSE IF Contains(field_type, W_Map) \/ Contains(field_type, S_HashMap)
            \/ Contains(field_type, S_ConcurrentHashMap)
    THEN "Map"
    ELSE IF Contains(field_type, W_List) \/ Contains(field_type, S_ArrayList)
    THEN "List"
    ELSE IF Contains(field_type, W_Set)
    THEN "Set"
    ELSE IF Contains(field_type, W_Atomic)
    THEN "Atomic"
    ELSE IF Contains(field_type, W_Recorder)
    THEN "Recorder"
    ELSE "Other"

\* field_type = f.get('fieldType', '')
FieldTypeOf(f) == DictGet(f, "fieldType", EmptyStr)

\* Mutant of BucketAppend: categories[label] = [f].
BucketOverwrite(cats, label, f) == DictSet(cats, label, <<f>>)

\* categories[label].append(f) on a defaultdict(list)
BucketAppend(cats, label, f) ==
    DictSet(cats, label,
            Append(IF DictHas(cats, label) THEN DictLookup(cats, label) ELSE << >>, f))

\* categorize_by_type(fs): the defaultdict after the loop
RECURSIVE categorize_by_type(_)
categorize_by_type(fs) ==
    IF Len(fs) = 0 THEN << >>
    ELSE BucketAppend(categorize_by_type(SubSeq(fs, 1, Len(fs) - 1)),
                      CategoryOf(FieldTypeOf(fs[Len(fs)])), fs[Len(fs)])

\* --------------------------------------------------------------------- inputs

\* JSON objects of the full run: three comparison keys, one of them under two
\* spellings of a nested class and with two field types.
WellFormed ==
    { [className |-> <<"F", "$", "B">>, fieldName |-> <<"y">>, fieldType |-> S_HashMap],
      [className |-> <<"F", ".", "B">>, fieldName |-> <<"y">>, fieldType |-> S_ConcurrentHashMap],
      [className |-> <<"X">>, fieldName |-> <<"z">>, fieldType |-> W_List],
      [className |-> <<"Q">>, fieldName |-> <<"w">>, fieldType |-> W_Atomic \o W_Long] }

\* JSON objects that lack className, fieldName or fieldType, and one that lacks none.
Malformed ==
    { [fieldName |-> <<"x">>, fieldType |-> W_List],
      [className |-> <<"X">>, fieldType |-> W_Set],
      [className |-> <<"X">>, fieldName |-> <<"x">>],
      [className |-> <<"X">>, fieldName |-> <<"x">>, fieldType |-> W_Map] }

\* The characters names are drawn from: the nested-class separator, the canonical
\* separator, the character of the key's "::" and a letter.
NameChars == {"$", ".", ":", "a"}

Names == SeqsUpTo(NameChars, MaxNameLen)

\* The words drawn field types are made of; "map" is W_Map in lower case.
TypeWords ==
    { W_Fast, W_Thread, W_Local, W_Counter, W_Gauge, W_Histogram, W_Summary, W_Loading,
      W_Cache, W_Concurrent, W_Hash, W_Map, W_Array, W_List, W_Set, W_Atomic, W_Recorder,
      W_Long, W_String, <<"m", "a", "p">> }

RECURSIVE Concat(_)
Concat(ws) == IF Len(ws) = 0 THEN << >> ELSE Concat(SubSeq(ws, 1, Len(ws) - 1)) \o ws[Len(ws)]

\* "ConcurrentHashMap<String,Counter>"
T_CounterMap == S_ConcurrentHashMap \o W_Lt \o W_String \o W_Comma \o W_Counter \o W_Gt

DrawnTypes == {Concat(ws) : ws \in SeqsUpTo(TypeWords, MaxTypeWords)} \cup {T_CounterMap}

\* One finding per category, and one without a fieldType.
Categorized ==
    { [className |-> <<"X">>, fieldName |-> <<"a">>, fieldType |-> S_ThreadLocal],
      [className |-> <<"X">>, fieldName |-> <<"b">>, fieldType |-> W_Counter],
      [className |-> <<"X">>, fieldName |-> <<"c">>, fieldType |-> S_LoadingCache],
      [className |-> <<"X">>, fieldName |-> <<"d">>, fieldType |-> S_HashMap],
      [className |-> <<"X">>, fieldName |-> <<"e">>, fieldType |-> S_ArrayList],
      [className |-> <<"X">>, fieldName |-> <<"f">>, fieldType |-> W_Hash \o W_Set],
      [className |-> <<"X">>, fieldName |-> <<"g">>, fieldType |-> W_Atomic \o W_Long],
      [className |-> <<"X">>, fieldName |-> <<"h">>, fieldType |-> W_Recorder],
      [className |-> <<"X">>, fieldName |-> <<"i">>, fieldType |-> W_String],
      [className |-> <<"X">>, fieldName |-> <<"j">>] }

\* --------------------------------------------------------------------- states

\* The value of a variable that has not been assigned yet.
Unset == << >>

\* main after the two loads, with nothing computed yet.
Loaded(a, b) ==
    /\ statescan = a
    /\ ground_truth = b
    /\ statescan_keys = Unset
    /\ ground_truth_keys = Unset
    /\ tp = Unset
    /\ fp = Unset
    /\ fn = Unset
    /\ precision = FracZero
    /\ recall = FracZero
    /\ f1 = FracZero
    /\ fp_cats = Unset
    /\ fn_cats = Unset
    /\ raised = FALSE

\* categorize_by_type is not called on its own.
NoCall ==
    /\ findings = Unset
    /\ categories = Unset

\* The full run on well-formed files.
Init ==
    /\ \E rawA \in SeqsUpTo(WellFormed, MaxFindings), b \in SeqsUpTo(WellFormed, MaxFindings) :
           Loaded(load_statescan_output(rawA), b)
    /\ pc = "loaded"
    /\ NoCall

\* The full run on files whose objects lack fields.
InitMalformed ==
    /\ \E rawA \in SeqsUpTo(Malformed, MaxFindings), b \in SeqsUpTo(Malformed, MaxFindings) :
           Loaded(load_statescan_output(rawA), b)
    /\ pc = "loaded"
    /\ NoCall

\* One finding on each side, its className and fieldName drawn character by character.
InitKey ==
    /\ \E c1 \in Names, n1 \in Names, c2 \in Names, n2 \in Names :
           Loaded(load_statescan_output(
                      <<[className |-> c1, fieldName |-> n1, fieldType |-> W_Map]>>),
                  <<[className |-> c2, fieldName |-> n2, fieldType |-> W_List]>>)
    /\ pc = "loaded"
    /\ NoCall

\* categorize_by_type called on its own: on one finding of a drawn fieldType, or on
\* a list of findings of the fixed categories.
InitCat ==
    /\ Loaded(<< >>, << >>)
    /\ pc = "call"
    /\ categories = Unset
    /\ \/ \E t \in DrawnTypes :
              findings = <<[className |-> <<"X">>, fieldName |-> <<"a">>, fieldType |-> t]>>
       \/ findings \in SeqsUpTo(Categorized, MaxCatLen)

\* --------------------------------------------------------------------- actions

\* tp, fp, fn = compare(statescan, ground_truth)
Compare ==
    /\ pc = "loaded"
    /\ LET sk == KeyDict(statescan)
           gk == KeyDict(ground_truth)
       IN  /\ statescan_keys' = sk
           /\ ground_truth_keys' = gk
           /\ tp' = TruePositives(sk, gk)
           /\ fp' = FalsePositives(sk, gk)
           /\ fn' = FalseNegatives(sk, gk)
    /\ pc' = "compared"
    /\ UNCHANGED <<statescan, ground_truth, precision, recall, f1, fp_cats, fn_cats,
                   raised, findings, categories>>

\* the three metric assignments of main
Metrics ==
    /\ pc = "compared"
    /\ LET p == Precision(Len(tp), Len(fp))
           r == Recall(Len(tp), Len(fn))
       IN  /\ precision' = p
           /\ recall' = r
           /\ f1' = F1(p, r)
    /\ pc' = "measured"
    /\ UNCHANGED <<statescan, ground_truth, statescan_keys, ground_truth_keys, tp, fp, fn,
                   fp_cats, fn_cats, raised, findings, categories>>

\* fp_cats = categorize_by_type(fp)
CategorizeFP ==
    /\ pc = "measured"
    /\ fp_cats' = categorize_by_type(fp)
    /\ pc' = "fp_categorized"
    /\ UNCHANGED <<statescan, ground_truth, statescan_keys, ground_truth_keys, tp, fp, fn,
                   precision, recall, f1, fn_cats, raised, findings, categories>>

\* fn_cats = categorize_by_type(fn)
CategorizeFN ==
    /\ pc = "fp_categorized"
    /\ fn_cats' = categorize_by_type(fn)
    /\ pc' = "categorized"
    /\ UNCHANGED <<statescan, ground_truth, statescan_keys, ground_truth_keys, tp, fp, fn,
                   precision, recall, f1, fp_cats, raised, findings, categories>>

\* How many true positives and false negatives main prints.
ShowLimit == 15

\* f['className'] and f['fieldName'] raise KeyError on a finding without the field.
Indexable(f) == "className" \in DOMAIN f /\ "fieldName" \in DOMAIN f

\* The listings main prints: the scanner's finding of the first true positives, the
\* first false negatives and every false positive are indexed by className and
\* fieldName.
Report ==
    /\ pc = "categorized"
    /\ LET shown_tp == Take(tp, ShowLimit)
           shown_fn == Take(fn, ShowLimit)
           ok == /\ \A i \in 1..Len(shown_tp) : Indexable(shown_tp[i][1])
                 /\ \A i \in 1..Len(shown_fn) : Indexable(shown_fn[i])
                 /\ \A i \in 1..Len(fp) : Indexable(fp[i])
       IN  /\ raised' = ~ok
           /\ pc' = IF ok THEN "reported" ELSE "error"
    /\ UNCHANGED <<statescan, ground_truth, statescan_keys, ground_truth_keys, tp, fp, fn,
                   precision, recall, f1, fp_cats, fn_cats, findings, categories>>

\* categories = categorize_by_type(findings), called on its own
CategorizeCall ==
    /\ pc = "call"
    /\ categories' = categorize_by_type(findings)
    /\ pc' = "returned"
    /\ UNCHANGED <<statescan, ground_truth, statescan_keys, ground_truth_keys, tp, fp, fn,
                   precision, recall, f1, fp_cats, fn_cats, raised, findings>>

Next == Compare \/ Metrics \/ CategorizeFP \/ CategorizeFN \/ Report

NextKey == Compare

NextCat == CategorizeCall

\* The full run of main on well-formed inputs.
Spec == Init /\ [][Next]_vars

\* The full run of main on inputs that lack fields.
SpecMalformed == InitMalformed /\ [][Next]_vars

\* compare on one finding per side, names drawn character by character.
SpecKey == InitKey /\ [][NextKey]_vars

\* categorize_by_type on its own.
SpecCat == InitCat /\ [][NextCat]_vars

\* ------------------------------------------------------- vocabulary of claims

Range(s) == {s[i] : i \in 1..Len(s)}

\* The comparison keys of a list of findings.
KeysOf(fs) == {create_key(fs[i]) : i \in 1..Len(fs)}

\* Where a key occurs first and last in a list of findings.
FirstIndex(fs, key) ==
    CHOOSE i \in 1..Len(fs) :
        create_key(fs[i]) = key /\ \A j \in 1..(i - 1) : create_key(fs[j]) # key

LastIndex(fs, key) ==
    CHOOSE i \in 1..Len(fs) :
        create_key(fs[i]) = key /\ \A j \in (i + 1)..Len(fs) : create_key(fs[j]) # key

\* compare has just returned: tp, fp and fn hold its result (no later step of main
\* assigns them).
Compared == pc = "compared"

\* The keys of the three groups, in their order.
MatchedKeys == [i \in 1..Len(tp) |-> create_key(tp[i][1])]

AOnlyKeys == [i \in 1..Len(fp) |-> create_key(fp[i])]

BOnlyKeys == [i \in 1..Len(fn) |-> create_key(fn[i])]

NoRepeat(s) == \A i, j \in 1..Len(s) : i # j => s[i] # s[j]

\* ------------------------------------------------------------------------ C1

\* C1 as stated: for all A and B, duplicated keys included,
\* |matched| + |aOnly| = |A| and |matched| + |bOnly| = |B|.
C1_SizesAddUpToInputs ==
    Compared =>
        /\ Len(tp) + Len(fp) = Len(statescan)
        /\ Len(tp) + Len(fn) = Len(ground_truth)

\* C1 amended: |matched| + |aOnly| is the number of distinct comparison keys of A
\* and |matched| + |bOnly| the number of distinct keys of B; they are |A| and |B|
\* when no key occurs twice within a side.
C1_SizesAddUpToDistinctKeys ==
    Compared =>
        /\ Len(tp) + Len(fp) = Cardinality(KeysOf(statescan))
        /\ Len(tp) + Len(fn) = Cardinality(KeysOf(ground_truth))
        /\ Cardinality(KeysOf(statescan)) = Len(statescan)
               => Len(tp) + Len(fp) = Len(statescan)
        /\ Cardinality(KeysOf(ground_truth)) = Len(ground_truth)
               => Len(tp) + Len(fn) = Len(ground_truth)

\* A key is duplicated on each side, and all three groups are inhabited.
C1_Witness ==
    /\ pc = "compared"
    /\ Cardinality(KeysOf(statescan)) < Len(statescan)
    /\ Cardinality(KeysOf(ground_truth)) < Len(ground_truth)
    /\ Len(tp) > 0
    /\ Len(fp) + Len(fn) > 0

\* ------------------------------------------------------------------------ C2

\* C2 as stated: the keys of the scanner's and the ground truth's finding are equal
\* if and only if their normalized classNames are equal and their fieldNames are
\* equal.
C2_KeyEqualIffPairEqual ==
    pc = "compared" =>
        LET a == statescan[1]
            b == ground_truth[1]
        IN  (statescan_keys[1][1] = ground_truth_keys[1][1])
                <=> /\ normalize_class_name(a.className) = normalize_class_name(b.className)
                    /\ a.fieldName = b.fieldName

\* ------------------------------------------------------------------------ C3

\* C3: the matched keys are exactly keys(A) \cap keys(B), each pair has equal keys,
\* its first member from A and its second from B; the aOnly keys are exactly
\* keys(A) \ keys(B) with findings of A; the bOnly keys are exactly
\* keys(B) \ keys(A) with findings of B; the three key sets are pairwise disjoint
\* and no key occurs twice within a group.
C3_ClassifiedByKeyMembership ==
    Compared =>
        LET KA == KeysOf(statescan)
            KB == KeysOf(ground_truth)
        IN  /\ Range(MatchedKeys) = KA \cap KB
            /\ Range(AOnlyKeys) = KA \ KB
            /\ Range(BOnlyKeys) = KB \ KA
            /\ \A i \in 1..Len(tp) :
                   /\ create_key(tp[i][1]) = create_key(tp[i][2])
                   /\ tp[i][1] \in Range(statescan)
                   /\ tp[i][2] \in Range(ground_truth)
            /\ \A i \in 1..Len(fp) : fp[i] \in Range(statescan)
            /\ \A i \in 1..Len(fn) : fn[i] \in Range(ground_truth)
            /\ Range(MatchedKeys) \cap Range(AOnlyKeys) = {}
            /\ Range(MatchedKeys) \cap Range(BOnlyKeys) = {}
            /\ Range(AOnlyKeys) \cap Range(BOnlyKeys) = {}
            /\ NoRepeat(MatchedKeys)
            /\ NoRepeat(AOnlyKeys)
            /\ NoRepeat(BOnlyKeys)

\* All three groups are inhabited.
C3_Witness ==
    /\ pc = "compared"
    /\ Len(tp) > 0
    /\ Len(fp) > 0
    /\ Len(fn) > 0

\* ------------------------------------------------------------------------ C4

\* C4: the finding emitted for a key (in a matched pair, in aOnly or in bOnly) is
\* the last finding with that key in its side's input, and no error ends the run
\* of main.
C4_LastOccurrenceWins ==
    /\ ~raised
    /\ Compared =>
        /\ \A i \in 1..Len(tp) :
               /\ tp[i][1] = statescan[LastIndex(statescan, create_key(tp[i][1]))]
               /\ tp[i][2] = ground_truth[LastIndex(ground_truth, create_key(tp[i][2]))]
        /\ \A i \in 1..Len(fp) :
               fp[i] = statescan[LastIndex(statescan, create_key(fp[i]))]
        /\ \A i \in 1..Len(fn) :
               fn[i] = ground_truth[LastIndex(ground_truth, create_key(fn[i]))]

\* Both sides hold two different findings under one key, and the key is matched.
C4_Witness ==
    /\ pc = "compared"
    /\ \E i, j \in 1..Len(statescan) :
           /\ i < j
           /\ create_key(statescan[i]) = create_key(statescan[j])
           /\ statescan[i] # statescan[j]
           /\ \E k, l \in 1..Len(ground_truth) :
                  /\ k < l
                  /\ create_key(ground_truth[k]) = create_key(ground_truth[l])
                  /\ ground_truth[k] # ground_truth[l]
                  /\ create_key(ground_truth[k]) = create_key(statescan[i])

\* ------------------------------------------------------------------------ C5

\* main has just computed the metrics (no later step assigns them).
Measured == pc = "measured"

\* A fraction <<num, den>> lies in [0, 1].
InUnitInterval(x) == x[2] > 0 /\ 0 <= x[1] /\ x[1] <= x[2]

\* C5: with tp = |matched|, fp = |aOnly|, fn = |bOnly|: precision = tp/(tp+fp),
\* recall = tp/(tp+fn), f1 = 2*precision*recall/(precision+recall), each 0 when its
\* denominator is 0; all three lie in [0, 1]; two empty inputs and one scanner-only
\* finding against an empty ground truth give (0, 0, 0), fully matched inputs give
\* (1, 1, 1).  The equations are stated by cross-multiplication.
C5_MetricsFormulas ==
    Measured =>
        LET ntp == Len(tp)
            nfp == Len(fp)
            nfn == Len(fn)
            psum == precision[1] * recall[2] + recall[1] * precision[2]
        IN  /\ InUnitInterval(precision)
            /\ InUnitInterval(recall)
            /\ InUnitInterval(f1)
            /\ IF ntp + nfp = 0 THEN precision[1] = 0
               ELSE precision[1] * (ntp + nfp) = ntp * precision[2]
            /\ IF ntp + nfn = 0 THEN recall[1] = 0
               ELSE recall[1] * (ntp + nfn) = ntp * recall[2]
            /\ IF psum = 0 THEN f1[1] = 0
               ELSE f1[1] * psum = 2 * precision[1] * recall[1] * f1[2]
            /\ (statescan = << >> /\ ground_truth = << >>)
                   => precision[1] = 0 /\ recall[1] = 0 /\ f1[1] = 0
            /\ (Len(statescan) = 1 /\ ground_truth = << >>)
                   => ntp = 0 /\ nfp = 1 /\ precision[1] = 0 /\ recall[1] = 0 /\ f1[1] = 0
            /\ (ntp > 0 /\ nfp = 0 /\ nfn = 0)
                   => precision = <<1, 1>> /\ recall = <<1, 1>> /\ f1 = <<1, 1>>

\* Matched and scanner-only findings, precision different from recall, f1 strictly
\* between 0 and 1.
C5_Witness ==
    /\ pc = "measured"
    /\ Len(tp) > 0
    /\ Len(fp) > 0
    /\ precision # recall
    /\ 0 < f1[1]
    /\ f1[1] < f1[2]

\* ------------------------------------------------------------------------ C6

\* The predicates in their fixed order: a label and the substrings that select it.
PredicateTable ==
    << <<"ThreadLocal", {S_ThreadLocal, S_FastThreadLocal}>>,
       <<"Metrics", {W_Counter, W_Gauge, W_Histogram, W_Summary}>>,
       <<"Cache", {W_Cache, S_LoadingCache}>>,
       <<"Map", {W_Map, S_HashMap, S_ConcurrentHashMap}>>,
       <<"List", {W_List, S_ArrayList}>>,
       <<"Set", {W_Set}>>,
       <<"Atomic", {W_Atomic}>>,
       <<"Recorder", {W_Recorder}>> >>

Satisfies(field_type, k) == \E sub \in PredicateTable[k][2] : Contains(field_type, sub)

\* The label of the earliest predicate a fieldType satisfies, Other when none.
FirstLabel(field_type) ==
    IF \E k \in 1..Len(PredicateTable) : Satisfies(field_type, k)
    THEN PredicateTable[CHOOSE k \in 1..Len(PredicateTable) :
                            /\ Satisfies(field_type, k)
                            /\ \A l \in 1..(k - 1) : ~Satisfies(field_type, l)][1]
    ELSE "Other"

\* The labels of the buckets a finding was put in.
BucketsOf(cats, f) == {cats[j][1] : j \in {k \in 1..Len(cats) : f \in Range(cats[k][2])}}

\* C6: every finding is put under the label of the first predicate, in the order
\* ThreadLocal, Metrics, Cache, Map, List, Set, Atomic, Recorder, that its fieldType
\* satisfies, and under Other when it satisfies none;
\* "ConcurrentHashMap<String,Counter>" is put under Metrics.
C6_FirstPredicateWins ==
    pc = "returned" =>
        /\ \A i \in 1..Len(findings) :
               BucketsOf(categories, findings[i])
                   = {FirstLabel(DictGet(findings[i], "fieldType", EmptyStr))}
        /\ \A i \in 1..Len(findings) :
               DictGet(findings[i], "fieldType", EmptyStr) = T_CounterMap
                   => BucketsOf(categories, findings[i]) = {"Metrics"}

\* The finding of type "ConcurrentHashMap<String,Counter>" has been categorized.
C6_Witness ==
    /\ pc = "returned"
    /\ Len(findings) = 1
    /\ findings[1].fieldType = T_CounterMap
    /\ Satisfies(T_CounterMap, 2)
    /\ Satisfies(T_CounterMap, 4)
    /\ Len(categories) = 1

\* ------------------------------------------------------------------------ C7

\* s is strictly increasing.
Increasing(s) == \A i, j \in 1..Len(s) : i < j => s[i] < s[j]

\* C7: matched pairs and aOnly entries are in the order in which their keys first
\* occur in A, bOnly entries in the order in which their keys first occur in B.
C7_OrderOfFirstOccurrence ==
    Compared =>
        /\ Increasing([i \in 1..Len(tp) |-> FirstIndex(statescan, MatchedKeys[i])])
        /\ Increasing([i \in 1..Len(fp) |-> FirstIndex(statescan, AOnlyKeys[i])])
        /\ Increasing([i \in 1..Len(fn) |-> FirstIndex(ground_truth, BOnlyKeys[i])])

\* A key occurs first and third in A with another key between them, the retained
\* finding is the third, and both keys end in the same group.
C7_Witness ==
    /\ pc = "compared"
    /\ Len(statescan) = 3
    /\ create_key(statescan[1]) = create_key(statescan[3])
    /\ create_key(statescan[1]) # create_key(statescan[2])
    /\ statescan[1] # statescan[3]
    /\ fp = <<statescan[3], statescan[2]>>

\* ------------------------------------------------------------------------ C8

\* The nine categories.
Labels == {"ThreadLocal", "Metrics", "Cache", "Map", "List", "Set", "Atomic", "Recorder", "Other"}

RECURSIVE SumSizes(_)
SumSizes(cats) ==
    IF Len(cats) = 0 THEN 0
    ELSE SumSizes(SubSeq(cats, 1, Len(cats) - 1)) + Len(cats[Len(cats)][2])

\* The findings of fs that are in bucket b, in the order of fs.
Restricted(fs, b) == LET In(f) == f \in Range(b) IN SelectSeq(fs, In)

\* C8: categorize_by_type(F) is a partition of F: every finding is in exactly one
\* bucket, each bucket is the findings of F it holds in their order in F (so each
\* as often as in F), the sizes sum to |F|, no bucket is empty and every label is
\* one of the nine categories.
C8_Partition ==
    pc = "returned" =>
        /\ \A i \in 1..Len(findings) : Cardinality(BucketsOf(categories, findings[i])) = 1
        /\ \A j \in 1..Len(categories) :
               /\ categories[j][1] \in Labels
               /\ Len(categories[j][2]) > 0
               /\ categories[j][2] = Restricted(findings, categories[j][2])
        /\ \A j, k \in 1..Len(categories) : j # k => categories[j][1] # categories[k][1]
        /\ SumSizes(categories) = Len(findings)

\* Three findings in two buckets, the two of one bucket not adjacent in F.
C8_Witness ==
    /\ pc = "returned"
    /\ Len(findings) = 3
    /\ Len(categories) = 2
    /\ Len(categories[1][2]) = 2
    /\ categories[1][2] = <<findings[1], findings[3]>>
    /\ findings[1] # findings[3]

\* ------------------------------------------------------------------------ C9

\* A finding lacks className, fieldName or fieldType.
LacksField(f) == {"className", "fieldName", "fieldType"} \ DOMAIN f # {}

\* How often x occurs in s.
Count(s, x) == Cardinality({i \in 1..Len(s) : s[i] = x})

SameUpToSeparator(x, y) ==
    /\ Len(x) = Len(y)
    /\ \A i \in 1..Len(x) : x[i] = y[i] \/ {x[i], y[i]} = {"$", "."}

====
